---- MODULE Spec2Model ----
(***************************************************************************)
(* asdb-jobs: the background job runner of the antiSMASH database.         *)
(*                                                                         *)
(* The model covers the shared jobs and controls tables, the per-runner    *)
(* RunConfig, the supervisor task (core.manage), the dispatcher tasks      *)
(* (core.dispatch), the job handlers with their child process and timeout  *)
(* (core.handle_comparippson / handle_clusterblast / cancel / run_process) *)
(* and the result parser (blast.py).                                       *)
(*                                                                         *)
(* Scheduling follows asyncio: the code between two awaits of a task is    *)
(* one atomic action.  Database round trips and bookkeeping take no time;  *)
(* asyncio.sleep takes CONTROL_UPDATE_SLEEP time units; a child process    *)
(* runs for an arbitrary time.                                             *)
(***************************************************************************)
EXTENDS Integers, Sequences, FiniteSets, TLC

(***************************************************************************)
(* Bounds of the model.                                                    *)
(***************************************************************************)
\* dispatcher task slots per runner (tasks ever started by one runner)
MaxTasks == 8
\* writes to the jobs table by clients other than the runners
MaxExternalWrites == 1
\* edits of a runner's configuration file
MaxEdits == 1
\* times the operator flips stop_scheduled to true
MaxStops == 1
\* cap of the elapsed-time observers
MaxClock == 16

\* core.py:31
CONTROL_UPDATE_SLEEP == 5

Runners == {"r1", "r2"}
Tasks == Runners \X (1..MaxTasks)
RunnerOf(t) == t[1]

NoTask == <<"none", 0>>
NoRow == [absent |-> TRUE]
NoJob == [absent |-> TRUE]
Unset == [unset |-> TRUE]

(***************************************************************************)
(* blast.py: the result parser.  A line is its sequence of tab-separated   *)
(* fields; every field is a string.                                        *)
(***************************************************************************)
\* the numeric strings of the model and the value int() gives them
IntStrings ==
  {"0", "1", "2", "3", "4", "5", "8", "10", "13", "20", "23", "40", "99", "-4"}
IntOf(s) ==
  CASE s = "0" -> 0 [] s = "1" -> 1 [] s = "2" -> 2 [] s = "3" -> 3
    [] s = "4" -> 4 [] s = "5" -> 5 [] s = "8" -> 8 [] s = "10" -> 10
    [] s = "13" -> 13 [] s = "20" -> 20 [] s = "23" -> 23 [] s = "40" -> 40
    [] s = "99" -> 99 [] s = "-4" -> -4

\* number of fields of the BlastResult dataclass, len(fields(cls))
NumBlastFields == 11

\* str.strip() on a line: tabs at either end are whitespace, so empty
\* leading and trailing fields go; "".split("\t") is [""]
RECURSIVE DropLeadingEmpty(_)
DropLeadingEmpty(parts) ==
  IF parts # <<>> /\ Head(parts) = "" THEN DropLeadingEmpty(Tail(parts)) ELSE parts

RECURSIVE DropTrailingEmpty(_)
DropTrailingEmpty(parts) ==
  IF parts # <<>> /\ parts[Len(parts)] = ""
    THEN DropTrailingEmpty(SubSeq(parts, 1, Len(parts) - 1))
    ELSE parts

StripSplit(line) ==
  LET p == DropTrailingEmpty(DropLeadingEmpty(line))
  IN  IF p = <<>> THEN <<"">> ELSE p

\* round(): Python rounds halves to the even neighbour
RoundHalfEven(num, den) ==
  LET q == num \div den
      r == num % den
  IN  IF 2 * r < den THEN q
      ELSE IF 2 * r > den THEN q + 1
      ELSE IF q % 2 = 0 THEN q ELSE q + 1

\* (nident / q_len) * 100 is computed in doubles.  Where the exact value is
\* not k + 1/2 the double is close enough to it for round() to give the
\* nearest integer.  Where it is k + 1/2 the double is k + 1/2 too, except
\* for these k (all there are below 1300): there the product comes out just
\* beside the half, and round() goes to the neighbour that rounding the half
\* to even would not take.
InexactTies ==
  {54, 57, 101, 103, 122, 124, 125, 127, 213, 215, 217, 219, 230, 232, 234,
   236, 401, 402, 406, 410, 439, 443, 447, 448, 451, 452, 456, 460, 489, 493,
   497, 498, 501, 502, 506, 510, 800, 807, 808, 815, 834, 841, 842, 849, 850,
   857, 858, 865, 884, 891, 892, 899, 900, 907, 908, 915, 934, 941, 942, 949,
   950, 957, 958, 965, 984, 991, 992, 999, 1000, 1007, 1008, 1015}

\* round((nident / q_len) * 100) for q_len # 0; the negative values of the
\* model give no half
Identity(nident, q_len) ==
  LET num == IF q_len < 0 THEN -(nident * 100) ELSE nident * 100
      den == IF q_len < 0 THEN -q_len ELSE q_len
      k == num \div den
      even == RoundHalfEven(num, den)
  IN  IF 2 * (num % den) = den /\ k \in InexactTies
        THEN (IF even = k THEN k + 1 ELSE k)
        ELSE even

\* the positions from_line converts with int()
IntFieldPositions == {3, 5, 6, 7, 9, 10, 11}

\* BlastResult.from_line raises (ValueError on a wrong field count or a
\* field int() rejects, ZeroDivisionError on q_len = 0)
from_line_raises(line) ==
  LET parts == StripSplit(line)
  IN  \/ Len(parts) # NumBlastFields
      \/ \E i \in IntFieldPositions : parts[i] \notin IntStrings
      \/ IntOf(parts[7]) = 0

from_line(line) ==
  LET parts == StripSplit(line)
  IN  [q_acc    |-> parts[1],
       s_acc    |-> parts[2],
       identity |-> Identity(IntOf(parts[3]), IntOf(parts[7])),
       q_seq    |-> parts[4],
       q_start  |-> IntOf(parts[5]),
       q_end    |-> IntOf(parts[6]),
       q_len    |-> IntOf(parts[7]),
       s_seq    |-> parts[8],
       s_start  |-> IntOf(parts[9]),
       s_end    |-> IntOf(parts[10]),
       s_len    |-> IntOf(parts[11])]

\* parse_blast raises as soon as one line does
parse_blast_raises(lines) == \E i \in 1..Len(lines) : from_line_raises(lines[i])

parse_blast(lines) == [i \in 1..Len(lines) |-> from_line(lines[i])]

\* blast.s_acc.split("|")[0] on the subject accessions of the model
EntryId(s_acc) ==
  CASE s_acc = "ENT1|x" -> "ENT1"
    [] s_acc = "ENT2|y" -> "ENT2"
    [] s_acc = "ENT9|z" -> "ENT9"
    [] OTHER -> s_acc

\* app['comparippson_metadata']["entries"], loaded once at startup
MetadataEntries ==
  [ENT1 |-> [locus |-> "L", type |-> "T", accession |-> "A", start |-> "1", end |-> "99"],
   ENT2 |-> [locus |-> "M", type |-> "U", accession |-> "B", start |-> "5", end |-> "8"]]

\* ComparippsonResult.from_blast raises KeyError on an unknown entry id
from_blast_raises(blast) == EntryId(blast.s_acc) \notin DOMAIN MetadataEntries

from_blast(blast) ==
  LET data == MetadataEntries[EntryId(blast.s_acc)]
  IN  [q_acc       |-> blast.q_acc,
       s_locus     |-> data.locus,
       s_type      |-> data.type,
       s_acc       |-> data.accession,
       s_rec_start |-> data.start,
       s_rec_end   |-> data.end,
       identity    |-> blast.identity,
       q_seq       |-> blast.q_seq,
       q_start     |-> blast.q_start,
       q_end       |-> blast.q_end,
       q_len       |-> blast.q_len,
       s_seq       |-> blast.s_seq,
       s_start     |-> blast.s_start,
       s_end       |-> blast.s_end,
       s_len       |-> blast.s_len]

\* list.sort(key=identity, reverse=True): stable, descending; an insertion
\* sort that puts an element after the elements that are not smaller
\* an insertion that puts a hit before the hits of equal identity
RECURSIVE InsertDescBeforeTies(_, _)
InsertDescBeforeTies(sorted, e) ==
  IF sorted = <<>> THEN <<e>>
  ELSE IF Head(sorted).identity > e.identity
    THEN <<Head(sorted)>> \o InsertDescBeforeTies(Tail(sorted), e)
    ELSE <<e>> \o sorted

RECURSIVE InsertDesc(_, _)
InsertDesc(sorted, e) ==
  IF sorted = <<>> THEN <<e>>
  ELSE IF Head(sorted).identity >= e.identity
    THEN <<Head(sorted)>> \o InsertDesc(Tail(sorted), e)
    ELSE <<e>> \o sorted

RECURSIVE SortByIdentityDesc(_)
SortByIdentityDesc(hits) ==
  IF hits = <<>> THEN <<>>
  ELSE InsertDesc(SortByIdentityDesc(SubSeq(hits, 1, Len(hits) - 1)), hits[Len(hits)])


(***************************************************************************)
(* The child's output: the sample lines of the model.                      *)
(***************************************************************************)
LineS1 == <<"q1", "ENT1|x", "4", "MAGI", "1", "4", "5", "MAGX", "10", "13", "20">>
LineFull == <<"q1", "ENT2|y", "5", "MAGIC", "1", "5", "5", "MAGIC", "1", "5", "8">>
LineTenFields == <<"q1", "ENT1|x", "4", "MAGI", "1", "4", "5", "MAGX", "10", "13">>
LineNoEntry == <<"q1", "ENT9|z", "4", "MAGI", "1", "4", "5", "MAGX", "10", "13", "20">>
LineZeroLen == <<"q1", "ENT1|x", "0", "MAGI", "1", "4", "0", "MAGX", "10", "13", "20">>

\* a second row with identity 80, and the rows over every pair of strings
\* for nident and q_len ("x" is no number)
LineTie == <<"q2", "ENT2|y", "8", "MAGICMAG", "1", "8", "10", "MAGICMAG", "1", "8", "8">>

SortLines == {LineS1, LineFull, LineTie}

MaxLines == 3

NumericFields == IntStrings \cup {"x"}

RowOf(nident, q_len) ==
  <<"q1", "ENT1|x", nident, "MAGI", "1", "4", q_len, "MAGX", "10", "13", "20">>

\* stdout of a child that exits 0, for the parser and the sort: up to
\* MaxLines of the rows with identities 80, 100 and 80 in any order, or
\* one row with any nident and q_len
Stdouts ==
  UNION {[1..n -> SortLines] : n \in 0..MaxLines}
    \cup {<<RowOf(n, q)>> : n \in NumericFields, q \in NumericFields}

\* stdout of a child that exits 0
ChildOutputs == {<<LineS1, LineFull>>, <<LineS1, LineTenFields>>, <<LineNoEntry>>}

\* stderr of a child that exits nonzero
ChildErrors == {<<"bad input">>}

(***************************************************************************)
(* config.py: RunConfig.  A configuration file is the dict toml.loads      *)
(* gives; the config is the record of the dataclass fields the model uses. *)
(***************************************************************************)
EmptyDict == [k \in {} |-> 0]

FileChoices ==
  <<EmptyDict,
    [max_jobs |-> 0], [max_jobs |-> 1], [max_jobs |-> 2], [max_jobs |-> 4],
    [cpus |-> 4], [colour |-> 1]>>

FileContents == {FileChoices[i] : i \in 1..Len(FileChoices)}

\* every dict toml.loads hands to update_from_dict in this model: the file
\* contents above, and dicts with two recognised keys, with a recognised and
\* an unknown key, and with the name of a private field
DictChoices ==
  FileChoices \o
  <<[max_jobs |-> 1, cpus |-> 4], [colour |-> 1, max_jobs |-> 2],
    [_running_jobs |-> 1]>>

Dicts == {DictChoices[i] : i \in 1..Len(DictChoices)}

\* md5(data).hexdigest(): distinct contents have distinct digests, and no
\* digest is the initial "" (modelled as 0)
Digest(content) == CHOOSE i \in 1..Len(DictChoices) : DictChoices[i] = content

\* update_from_dict that knows max_jobs only
update_max_jobs_only(c, d) ==
  [c EXCEPT !.max_jobs = IF "max_jobs" \in DOMAIN d THEN d.max_jobs ELSE @]

update_from_dict(c, d) ==
  [k \in DOMAIN c |-> IF k \in DOMAIN d THEN d[k] ELSE c[k]]

\* read_config without the comparison of the digests
read_config_always(c, content) ==
  update_from_dict([c EXCEPT !._config_file_hash = Digest(content)], content)

read_config(c, content) ==
  IF Digest(content) = c._config_file_hash
    THEN c
    ELSE update_from_dict([c EXCEPT !._config_file_hash = Digest(content)], content)

\* the property running_jobs
running_jobs(c) == c._running_jobs

up(c) == [c EXCEPT !._running_jobs = @ + 1]

down(c) == [c EXCEPT !._running_jobs = @ - 1]

\* want_more_jobs that is true at the target too
want_more_jobs_or_equal(c) == running_jobs(c) <= c.max_jobs

want_more_jobs(c) == running_jobs(c) < c.max_jobs

\* a shrink test that also elects a dispatcher of a pool on target
want_less_jobs_or_equal(c) == running_jobs(c) >= c.max_jobs

\* a shrink test that never elects anybody
want_less_jobs_never(c) == FALSE

want_less_jobs(c) == running_jobs(c) > c.max_jobs

\* RunConfig.from_argparse, then main's config.read_config()
StartConfig(cli_max_jobs, content) ==
  read_config([cpus |-> 2, max_jobs |-> cli_max_jobs,
               _config_file_hash |-> 0, _running_jobs |-> 0], content)

(***************************************************************************)
(* State.                                                                  *)
(***************************************************************************)
VARIABLES
  jobs,        \* table asdb_jobs.jobs: id -> row
  lock,        \* row locks of open claim transactions: id -> task
  controls,    \* table asdb_jobs.controls: runner name -> row
  file,        \* the configuration file of each runner
  conf,        \* the RunConfig of each runner
  control,     \* manage: the Control object of each runner
  m_pc,        \* manage: where the supervisor of each runner is
  m_timer,     \* manage: time left of its asyncio.sleep
  d_pc,        \* dispatch: where each dispatcher task is
  d_timer,     \* dispatch: time left of its asyncio.sleep
  d_job,       \* dispatch: the Job object the task holds
  d_row,       \* get_next / commit: the version of the row just read
  d_exc,       \* dispatch: the task is inside its except clause
  child,       \* the podman child of the task's job
  event,       \* the handler's Future
  timeout,     \* the handler's call_later handle
  kill_log,    \* the "podman kill <name>" invocations, in order
  cancels,     \* the cancel() tasks the timers have created, in order
  writes,      \* the UPDATE statements the runners issued, per job
  returned,    \* the tasks get_next returned the job to, per job
  delivered,   \* what "await event" gave the handler, per job
  env,         \* how often the environment acted (edits, stops, writes)
  clock        \* elapsed-time observers of each runner

vars ==
  <<jobs, lock, controls, file, conf, control, m_pc, m_timer, d_pc, d_timer,
    d_job, d_row, d_exc, child, event, timeout, kill_log, cancels, writes, returned,
    delivered, env, clock>>

dbVars == <<jobs, lock, writes, returned>>
handlerVars == <<d_job, d_row, d_exc, child, event, timeout, kill_log, cancels, delivered>>
managerVars == <<m_pc, m_timer, controls, control>>

\* the ids of the rows of the jobs table
Seeded == DOMAIN jobs

Terminal == {"done", "failed"}

FailedResults(err) == [status |-> "failed", error |-> err]

\* a job as its producer inserts it
SeededJob(jobtype) ==
  [jobtype |-> jobtype, status |-> "pending", runner |-> "",
   results |-> [none |-> TRUE], version |-> 0]

\* main(): the config is read, max_jobs dispatch tasks are appended and
\* manage is the main task; a runner that was not launched is "off".
\* jobtypes gives the rows the producers have seeded.
InitFrom(launched, confs, dpcs, files, jobtypes) ==
  /\ jobs = [j \in DOMAIN jobtypes |-> SeededJob(jobtypes[j])]
  /\ lock = [j \in DOMAIN jobtypes |-> NoTask]
  /\ controls = [r \in Runners |-> NoRow]
  /\ file = files
  /\ conf = confs
  /\ control = [r \in Runners |-> [stop_scheduled |-> FALSE]]
  /\ m_pc = [r \in Runners |-> IF r \in launched THEN "start" ELSE "off"]
  /\ m_timer = [r \in Runners |-> 0]
  /\ d_pc = dpcs
  /\ d_timer = [t \in Tasks |-> 0]
  /\ d_job = [t \in Tasks |-> NoJob]
  /\ d_row = [t \in Tasks |-> 0]
  /\ d_exc = [t \in Tasks |-> FALSE]
  /\ child = [t \in Tasks |-> "none"]
  /\ event = [t \in Tasks |-> Unset]
  /\ timeout = [t \in Tasks |-> "none"]
  /\ kill_log = <<>>
  /\ cancels = <<>>
  /\ writes = [j \in DOMAIN jobtypes |-> <<>>]
  /\ returned = [j \in DOMAIN jobtypes |-> <<>>]
  /\ delivered = [j \in DOMAIN jobtypes |-> Unset]
  /\ env = [edits |-> 0, stops |-> 0, writes |-> [j \in DOMAIN jobtypes |-> 0]]
  /\ clock = [r \in Runners |-> [since_stop |-> -1, since_zero |-> 0]]

\* from_argparse, then read_config: the state main() starts the tasks in
InitWith(launched, cli, files, jobtypes) ==
  InitFrom(launched, [r \in Runners |-> StartConfig(cli[r], files[r])],
           [t \in Tasks |->
              IF RunnerOf(t) \in launched
                 /\ t[2] <= StartConfig(cli[RunnerOf(t)], files[RunnerOf(t)]).max_jobs
                THEN "spawned" ELSE "unborn"],
           files, jobtypes)

(***************************************************************************)
(* models/job.py: JobQueue.get_next and Job.commit.                        *)
(***************************************************************************)
\* the SELECT without SKIP LOCKED and without waiting for the lock
SelectableIgnoringLock(j) == jobs[j].status = "pending"

\* the SELECT with the status test "not running"
SelectableUnlessRunning(j) == jobs[j].status # "running" /\ lock[j] = NoTask

\* the rows "SELECT ... WHERE status = 'pending' FOR UPDATE SKIP LOCKED
\* LIMIT 1" can give: pending and not locked by another transaction
Selectable(j) == jobs[j].status = "pending" /\ lock[j] = NoTask

\* a claim that leaves the version alone
ClaimVersionKept(row_version) == row_version

\* the version the claim's UPDATE writes: row["version"] + 1
ClaimVersion(row_version) == row_version + 1

\* Job.commit: self.version += 1
CommitVersion(version) == version + 1

\* a commit that never checks the version
ConflictNever(row_version, version) == FALSE

\* Job.commit: the check that raises JobConfict
Conflict(row_version, version) == row_version # version

\* an UPDATE by id alone
GateById(j, row_version) == TRUE

\* an UPDATE whose WHERE clause matches no row
GateNever(j, row_version) == FALSE

\* the WHERE clause of both UPDATE statements: the id and the version read
Gate(j, row_version) == jobs[j].version = row_version

\* the record of one UPDATE a runner issues: the row before and after it
\* and the version the writer had observed
WriteRecord(t, j, observed) ==
  [task |-> t, observed |-> observed, before |-> jobs[j], after |-> jobs'[j]]

(***************************************************************************)
(* core.py: dispatch.                                                      *)
(***************************************************************************)
\* the top of the loop, up to the first await: read_config, then the
\* shrink check; c is the runner's config when the task gets there
LoopTop(t, c) ==
  LET c1 == read_config(c, file[RunnerOf(t)])
  IN  IF want_less_jobs(c1)
        THEN /\ conf' = [conf EXCEPT ![RunnerOf(t)] = down(c1)]
             /\ d_pc' = [d_pc EXCEPT ![t] = "exited"]
        ELSE /\ conf' = [conf EXCEPT ![RunnerOf(t)] = c1]
             /\ d_pc' = [d_pc EXCEPT ![t] = "select"]

\* a started task runs: config.up(), then the loop
DispatchEnter(t) ==
  /\ d_pc[t] = "spawned"
  /\ LoopTop(t, up(conf[RunnerOf(t)]))
  /\ UNCHANGED <<dbVars, handlerVars, managerVars, file, d_timer, env, clock>>

\* asyncio.sleep(CONTROL_UPDATE_SLEEP) is over: the next pass of the loop
DispatchWake(t) ==
  /\ d_pc[t] = "sleep"
  /\ d_timer[t] = 0
  /\ LoopTop(t, conf[RunnerOf(t)])
  /\ UNCHANGED <<dbVars, handlerVars, managerVars, file, d_timer, env, clock>>

\* get_next: the SELECT; without a row the transaction ends, get_next
\* returns None and dispatch sleeps
GetNextSelect(t) ==
  /\ d_pc[t] = "select"
  /\ \/ /\ \E j \in Seeded :
             /\ Selectable(j)
             /\ lock' = [lock EXCEPT ![j] = t]
             /\ d_row' = [d_row EXCEPT ![t] = jobs[j].version]
             /\ d_job' = [d_job EXCEPT ![t] = [claiming |-> j]]
        /\ d_pc' = [d_pc EXCEPT ![t] = "update"]
        /\ UNCHANGED d_timer
     \/ /\ \A j \in Seeded : ~Selectable(j)
        /\ d_pc' = [d_pc EXCEPT ![t] = "sleep"]
        /\ d_timer' = [d_timer EXCEPT ![t] = CONTROL_UPDATE_SLEEP]
        /\ UNCHANGED <<lock, d_row, d_job>>
  /\ UNCHANGED <<jobs, writes, returned, d_exc, child, event, timeout, kill_log, cancels,
                 delivered, managerVars, file, conf, env, clock>>

\* get_next: the UPDATE and the end of the transaction
GetNextUpdate(t) ==
  /\ d_pc[t] = "update"
  /\ LET j == d_job[t].claiming
     IN  /\ jobs' = IF Gate(j, d_row[t])
               THEN [jobs EXCEPT ![j].runner = RunnerOf(t),
                                 ![j].status = "running",
                                 ![j].version = ClaimVersion(d_row[t])]
               ELSE jobs
         /\ writes' = [writes EXCEPT ![j] = Append(@, WriteRecord(t, j, d_row[t]))]
         /\ lock' = [k \in Seeded |-> IF lock[k] = t THEN NoTask ELSE lock[k]]
  /\ d_row' = [d_row EXCEPT ![t] = 0]
  /\ d_pc' = [d_pc EXCEPT ![t] = "from_db"]
  /\ UNCHANGED <<returned, d_job, d_exc, child, event, timeout, kill_log, cancels, delivered,
                 managerVars, file, conf, d_timer, env, clock>>

\* a handle_job that takes every job type for a clusterblast job
KnownJobTypeAny(jobtype) == TRUE

\* handle_job on a job type it knows
KnownJobType(jobtype) == jobtype \in {"comparippson", "clusterblast"}

\* get_next: Job.from_db and the return; then dispatch calls handle_job,
\* which raises InvalidJobType (dispatch marks the job failed and commits)
\* or starts the child, arms the timer and awaits the event
GetNextFromDb(t) ==
  /\ d_pc[t] = "from_db"
  /\ LET j == d_job[t].claiming
         job == [id |-> j, jobtype |-> jobs[j].jobtype, status |-> jobs[j].status,
                 runner |-> jobs[j].runner, results |-> jobs[j].results,
                 version |-> jobs[j].version]
     IN  /\ returned' = [returned EXCEPT ![j] = Append(@, t)]
         /\ IF KnownJobType(job.jobtype)
              THEN /\ d_job' = [d_job EXCEPT ![t] = job]
                   /\ child' = [child EXCEPT ![t] = "running"]
                   /\ d_pc' = [d_pc EXCEPT ![t] = "exec"]
                   /\ UNCHANGED <<d_exc, timeout>>
              ELSE /\ d_job' = [d_job EXCEPT ![t] =
                         [job EXCEPT !.status = "failed",
                                     !.results = FailedResults([str |-> job.jobtype])]]
                   /\ d_exc' = [d_exc EXCEPT ![t] = TRUE]
                   /\ d_pc' = [d_pc EXCEPT ![t] = "commit_read"]
                   /\ UNCHANGED <<child, timeout>>
  /\ UNCHANGED <<jobs, lock, writes, d_row, event, kill_log, cancels, delivered, managerVars,
                 file, conf, d_timer, env, clock>>

\* the handler after "await asyncio.create_subprocess_exec": the timer is
\* set with call_later, run_process is made a task, and the handler waits
\* for the event
HandlerWatch(t) ==
  /\ d_pc[t] = "exec"
  /\ timeout' = [timeout EXCEPT ![t] = "armed"]
  /\ d_pc' = [d_pc EXCEPT ![t] = "await_event"]
  /\ UNCHANGED <<dbVars, managerVars, file, conf, d_timer, d_job, d_row, d_exc,
                 child, event, kill_log, cancels, delivered, env, clock>>

(***************************************************************************)
(* core.py: run_process, cancel and the handlers.                          *)
(***************************************************************************)
\* the keys main() and init_db put into the application
AppKeys == {"conf", "comparippson_metadata", "engine"}

\* Future.set_result on a future that has its result raises
\* InvalidStateError in the setter and leaves the result alone
SetResult(t, result) ==
  event' = [event EXCEPT ![t] = IF @ = Unset THEN result ELSE @]

\* run_process: the child has exited and communicate() returns; a child
\* that was killed exits nonzero
\* outs and errs are what the child may have written to stdout and stderr
ChildExitWith(t, outs, errs) ==
  /\ d_pc[t] = "await_event"
  /\ child[t] \in {"running", "killed"}
  /\ child' = [child EXCEPT ![t] = "exited"]
  /\ \/ /\ child[t] = "running"
        /\ \E out \in outs :
             SetResult(t, [res |-> "success", stdout |-> out, stderr |-> <<>>])
     \/ \E err \in errs :
             SetResult(t, [res |-> "failure", stdout |-> <<>>, stderr |-> err])
  /\ UNCHANGED <<dbVars, managerVars, file, conf, d_pc, d_timer, d_job, d_row,
                 d_exc, timeout, kill_log, cancels, delivered, env, clock>>

ChildExit(t) == ChildExitWith(t, ChildOutputs, ChildErrors)

\* the timer fires: timeout_handler creates the cancel() task, which has
\* the job's id and runs from the next pass of the event loop on.  The
\* handler's timer is spent.
timeout_handler(t) ==
  /\ timeout[t] = "armed"
  /\ timeout' = [timeout EXCEPT ![t] = "none"]
  /\ cancels' = Append(cancels, [name |-> d_job[t].id, task |-> t,
                                 child |-> child[t], started |-> FALSE])
  /\ UNCHANGED <<dbVars, managerVars, file, conf, d_pc, d_timer, d_job, d_row,
                 d_exc, child, event, kill_log, delivered, env, clock>>

\* the child of the job of that name as its handler holds it
ChildOf(name, t) ==
  IF "id" \in DOMAIN d_job[t] /\ d_job[t].id = name THEN child[t] ELSE "none"

\* cancel() up to its first await: "podman kill <job id>" is started
cancel(i) ==
  /\ i \in 1..Len(cancels)
  /\ ~cancels[i].started
  /\ cancels' = [cancels EXCEPT ![i].started = TRUE]
  /\ kill_log' = Append(kill_log,
       [name |-> cancels[i].name,
        child |-> ChildOf(cancels[i].name, cancels[i].task),
        landed |-> "no"])
  /\ UNCHANGED <<dbVars, managerVars, file, conf, d_pc, d_timer, d_job, d_row,
                 d_exc, child, event, timeout, delivered, env, clock>>

\* the tasks whose handler runs the job of that name
HandlersOf(name) ==
  {t \in Tasks : "id" \in DOMAIN d_job[t] /\ d_job[t].id = name
                   /\ d_pc[t] = "await_event"}

\* cancel() after "await proc.communicate()": the kill has been at the
\* container of that name, which stops if it still runs (the log keeps what
\* the kill found); then
\* "del app['containers'][name]" raises KeyError unless the application has
\* that key, and only after it comes event.set_result(...), with four items
cancel_communicate(i) ==
  /\ i \in 1..Len(kill_log)
  /\ kill_log[i].landed = "no"
  /\ kill_log' = [kill_log EXCEPT ![i].landed =
       IF \E t \in HandlersOf(kill_log[i].name) : child[t] = "running"
         THEN "running" ELSE "exited"]
  /\ child' = [t \in Tasks |->
       IF t \in HandlersOf(kill_log[i].name) /\ child[t] = "running"
         THEN "killed" ELSE child[t]]
  /\ event' = [t \in Tasks |->
       IF "containers" \in AppKeys /\ t \in HandlersOf(kill_log[i].name)
          /\ event[t] = Unset
         THEN [res |-> "timeout", stdout |-> <<>>,
               stderr |-> <<"Runtime exceeded">>, extra |-> <<>>]
         ELSE event[t]]
  /\ UNCHANGED <<dbVars, managerVars, file, conf, d_pc, d_timer, d_job, d_row,
                 d_exc, timeout, cancels, delivered, env, clock>>

\* the hits of a job type from the parsed lines
\* (handle_clusterblast gets to its commit with no parsed line only)
Hits(jobtype, stdout) ==
  IF jobtype = "comparippson"
    THEN SortByIdentityDesc([i \in 1..Len(stdout) |-> from_blast(parse_blast(stdout)[i])])
    ELSE <<>>

\* the handler raises while it builds the hits (ValueError,
\* ZeroDivisionError, KeyError: none of them an ASDBJobsError).
\* handle_clusterblast names ClusterBlastResult in the body of its loop,
\* and blast.py defines no such class: the first parsed line raises
HitsRaise(jobtype, stdout) ==
  \/ parse_blast_raises(stdout)
  \/ /\ jobtype = "comparippson"
     /\ \E i \in 1..Len(stdout) : from_blast_raises(parse_blast(stdout)[i])
  \/ /\ jobtype = "clusterblast"
     /\ stdout # <<>>

\* the outcome of the handler once the event has its result: what it
\* stores in the job, or that it raises an error dispatch does not catch
\* ("res, stdout, stderr = await event" raises ValueError on four items;
\* job.status = "done" is assigned before the lines are parsed)
Outcome(jobtype, ev) ==
  IF "extra" \in DOMAIN ev THEN [raises |-> TRUE]
  ELSE IF ev.res = "timeout"
    THEN [raises |-> FALSE, status |-> "failed",
          results |-> FailedResults([str |-> "timeout exceeded"])]
  ELSE IF ev.res = "failure"
    THEN [raises |-> FALSE, status |-> "failed",
          results |-> FailedResults([lines |-> ev.stderr])]
  ELSE IF HitsRaise(jobtype, ev.stdout) THEN [raises |-> TRUE, status |-> "done"]
  ELSE [raises |-> FALSE, status |-> "done",
        results |-> [hits |-> Hits(jobtype, ev.stdout)]]

\* handle_comparippson / handle_clusterblast after "await event":
\* timeout.cancel() (the timer has fired already on TIMEOUT), then the
\* outcome; the event and the timer are the handler's locals and go with it
HandlerResume(t) ==
  /\ d_pc[t] = "await_event"
  /\ event[t] # Unset
  /\ LET o == Outcome(d_job[t].jobtype, event[t])
     IN  /\ delivered' = [delivered EXCEPT ![d_job[t].id] = event[t]]
         /\ timeout' = [timeout EXCEPT ![t] = "none"]
         /\ event' = [event EXCEPT ![t] = Unset]
         /\ child' = [child EXCEPT ![t] = IF @ = "exited" THEN "none" ELSE @]
         /\ IF o.raises
              THEN /\ d_pc' = [d_pc EXCEPT ![t] = "aborted"]
                   /\ d_job' = IF "status" \in DOMAIN o
                                 THEN [d_job EXCEPT ![t].status = o.status]
                                 ELSE d_job
              ELSE /\ d_pc' = [d_pc EXCEPT ![t] = "commit_read"]
                   /\ d_job' = [d_job EXCEPT ![t].status = o.status,
                                             ![t].results = o.results]
  /\ UNCHANGED <<dbVars, managerVars, file, conf, d_timer, d_row, d_exc, kill_log, cancels,
                 env, clock>>

\* str() of the JobConfict that Job.commit raises
ConflictMessage(j, stored, local) ==
  "Job(" \o j \o ") changed in database " \o ToString(stored)
    \o " vs. local " \o ToString(local)

\* Job.commit: get_job_by_id and the version check.  JobConfict raised in
\* the handler is an ASDBJobsError: dispatch catches it, marks the job
\* failed and commits again; raised in the except clause it ends the task
CommitRead(t) ==
  /\ d_pc[t] = "commit_read"
  /\ LET j == d_job[t].id
     IN  IF Conflict(jobs[j].version, d_job[t].version)
           THEN IF d_exc[t]
                  THEN /\ d_pc' = [d_pc EXCEPT ![t] = "aborted"]
                       /\ UNCHANGED <<d_job, d_exc, d_row>>
                  ELSE /\ d_exc' = [d_exc EXCEPT ![t] = TRUE]
                       /\ d_job' = [d_job EXCEPT
                            ![t].status = "failed",
                            ![t].results = FailedResults(
                              [str |-> ConflictMessage(j, jobs[j].version,
                                                       d_job[t].version)])]
                       /\ UNCHANGED <<d_pc, d_row>>
           ELSE /\ d_row' = [d_row EXCEPT ![t] = jobs[j].version]
                /\ d_job' = [d_job EXCEPT ![t].version = CommitVersion(@)]
                /\ d_pc' = [d_pc EXCEPT ![t] = "commit_update"]
                /\ UNCHANGED d_exc
  /\ UNCHANGED <<dbVars, managerVars, file, conf, d_timer, child, event, timeout,
                 kill_log, cancels, delivered, env, clock>>

\* Job.commit: the UPDATE; commit returns, the handler or the except
\* clause is done, and dispatch is at the top of its loop again
CommitUpdate(t) ==
  /\ d_pc[t] = "commit_update"
  /\ LET j == d_job[t].id
     IN  /\ jobs' = IF Gate(j, d_row[t])
               THEN [jobs EXCEPT ![j].status = d_job[t].status,
                                 ![j].runner = d_job[t].runner,
                                 ![j].results = d_job[t].results,
                                 ![j].version = d_job[t].version]
               ELSE jobs
         /\ writes' = [writes EXCEPT ![j] = Append(@, WriteRecord(t, j, d_row[t]))]
  /\ d_job' = [d_job EXCEPT ![t] = NoJob]
  /\ d_exc' = [d_exc EXCEPT ![t] = FALSE]
  /\ d_row' = [d_row EXCEPT ![t] = 0]
  /\ LoopTop(t, conf[RunnerOf(t)])
  /\ UNCHANGED <<lock, returned, managerVars, file, d_timer, child, event,
                 timeout, kill_log, cancels, delivered, env, clock>>

(***************************************************************************)
(* core.py: manage; models/control.py.                                     *)
(***************************************************************************)
\* app.start_task(dispatch): the next task slot of the runner
FreeSlots(r) == {t \in Tasks : RunnerOf(t) = r /\ d_pc[t] = "unborn"}

NextSlot(r) == CHOOSE t \in FreeSlots(r) : \A u \in FreeSlots(r) : t[2] <= u[2]

\* manage up to its loop: Control(...).commit() updates or inserts the row
ManageCommit(r) ==
  /\ m_pc[r] = "start"
  /\ controls' = [controls EXCEPT ![r] = [status |-> "running", stop_scheduled |-> FALSE]]
  /\ m_pc' = [m_pc EXCEPT ![r] = "fetch"]
  /\ UNCHANGED <<dbVars, handlerVars, file, conf, control, m_timer, d_pc, d_timer,
                 env, clock>>

\* a supervisor that ignores stop_scheduled
AfterStopCheckIgnored(c, stop_scheduled) == c

\* the config after "if control.stop_scheduled: config.max_jobs = 0"
AfterStopCheck(c, stop_scheduled) ==
  IF stop_scheduled THEN [c EXCEPT !.max_jobs = 0] ELSE c

\* the supervisor is about to start a task and the model has one left for it
SlotsSuffice ==
  \A r \in Runners :
    (/\ m_pc[r] = "fetch"
     /\ controls[r] # NoRow
     /\ want_more_jobs(AfterStopCheck(conf[r], controls[r].stop_scheduled)))
      => FreeSlots(r) # {}

\* one pass of the loop up to the sleep: control.fetch() (get_control
\* raises InvalidControlName without a row), the stop check, at most one
\* start_task, then asyncio.sleep
ManageFetch(r) ==
  /\ m_pc[r] = "fetch"
  /\ IF controls[r] = NoRow
       THEN /\ m_pc' = [m_pc EXCEPT ![r] = "crashed"]
            /\ UNCHANGED <<conf, control, d_pc, m_timer>>
       ELSE LET c == AfterStopCheck(conf[r], controls[r].stop_scheduled)
            IN  /\ want_more_jobs(c) => FreeSlots(r) # {}
                /\ control' = [control EXCEPT
                     ![r].stop_scheduled = controls[r].stop_scheduled]
                /\ conf' = [conf EXCEPT ![r] = c]
                /\ d_pc' = IF want_more_jobs(c)
                             THEN [d_pc EXCEPT ![NextSlot(r)] = "spawned"]
                             ELSE d_pc
                /\ m_pc' = [m_pc EXCEPT ![r] = "sleep"]
                /\ m_timer' = [m_timer EXCEPT ![r] = CONTROL_UPDATE_SLEEP]
  /\ UNCHANGED <<dbVars, handlerVars, controls, file, d_timer, env, clock>>

\* the break test without its negation
LeaveLoopWantingMore(c) == running_jobs(c) = 0 /\ want_more_jobs(c)

\* the break test after the sleep
LeaveLoop(c) == running_jobs(c) = 0 /\ ~want_more_jobs(c)

ManageWake(r) ==
  /\ m_pc[r] = "sleep"
  /\ m_timer[r] = 0
  /\ m_pc' = [m_pc EXCEPT ![r] = IF LeaveLoop(conf[r]) THEN "delete" ELSE "fetch"]
  /\ UNCHANGED <<dbVars, handlerVars, controls, control, file, conf, m_timer, d_pc,
                 d_timer, env, clock>>

\* control.delete() up to its DELETE: get_control reads the row by name and
\* raises InvalidControlName when there is none
ManageDelete(r) ==
  /\ m_pc[r] = "delete"
  /\ m_pc' = [m_pc EXCEPT ![r] = IF controls[r] = NoRow THEN "crashed" ELSE "delete_row"]
  /\ UNCHANGED <<dbVars, handlerVars, controls, file, conf, control, m_timer, d_pc,
                 d_timer, env, clock>>

\* Control.delete: the DELETE by name, which takes the row if it is still
\* there, and manage returns
ManageDeleteRow(r) ==
  /\ m_pc[r] = "delete_row"
  /\ controls' = [controls EXCEPT ![r] = NoRow]
  /\ m_pc' = [m_pc EXCEPT ![r] = "exited"]
  /\ UNCHANGED <<dbVars, handlerVars, file, conf, control, m_timer, d_pc, d_timer,
                 env, clock>>

(***************************************************************************)
(* The environment: the operator, the configuration file's editor, other   *)
(* clients of the jobs table, and time.                                    *)
(***************************************************************************)
Alive(r) == m_pc[r] \in {"start", "fetch", "sleep", "delete", "delete_row"}

\* the operator sets stop_scheduled on the runner's control row
OperatorStop(r) ==
  /\ controls[r] # NoRow
  /\ ~controls[r].stop_scheduled
  /\ env.stops < MaxStops
  /\ env' = [env EXCEPT !.stops = @ + 1]
  /\ controls' = [controls EXCEPT ![r].stop_scheduled = TRUE]
  /\ clock' = [clock EXCEPT ![r].since_stop = 0]
  /\ UNCHANGED <<dbVars, handlerVars, file, conf, control, m_pc, m_timer, d_pc, d_timer>>

\* the configuration file of a runner is rewritten
EditConfig(r) ==
  /\ Alive(r)
  /\ env.edits < MaxEdits
  /\ env' = [env EXCEPT !.edits = @ + 1]
  /\ \E content \in FileContents \ {file[r]} : file' = [file EXCEPT ![r] = content]
  /\ UNCHANGED <<dbVars, handlerVars, managerVars, conf, d_pc, d_timer, clock>>

\* the runner's control row is deleted under it: by a second process
\* started with the same name (the name defaults to "asdb-jobs") that
\* leaves its manage and runs Control.delete, or by the operator
ControlDeleted(r) ==
  /\ Alive(r)
  /\ controls[r] # NoRow
  /\ controls' = [controls EXCEPT ![r] = NoRow]
  /\ UNCHANGED <<dbVars, handlerVars, file, conf, control, m_pc, m_timer, d_pc,
                 d_timer, env, clock>>

Sum(f) ==
  LET RECURSIVE S(_)
      S(D) == IF D = {} THEN 0 ELSE LET x == CHOOSE y \in D : TRUE IN f[x] + S(D \ {x})
  IN  S(DOMAIN f)

\* another client of the jobs table (not a runner) updates a row under
\* the same version discipline; it waits for a row lock to go
ExternalWrite(j) ==
  /\ lock[j] = NoTask
  /\ Sum(env.writes) < MaxExternalWrites
  /\ env' = [env EXCEPT !.writes[j] = @ + 1]
  /\ jobs' = [jobs EXCEPT ![j].version = @ + 1]
  /\ UNCHANGED <<lock, writes, returned, handlerVars, managerVars, file, conf,
                 d_pc, d_timer, clock>>

\* a task has a step to take without waiting for time or for its child
UrgentTask(t) ==
  \/ d_pc[t] \in {"spawned", "select", "update", "from_db", "exec", "commit_read",
                  "commit_update"}
  \/ d_pc[t] = "sleep" /\ d_timer[t] = 0
  \/ d_pc[t] = "await_event" /\ event[t] # Unset

UrgentManager(r) ==
  \/ m_pc[r] \in {"start", "fetch", "delete", "delete_row"}
  \/ m_pc[r] = "sleep" /\ m_timer[r] = 0

Min(a, b) == IF a < b THEN a ELSE b

\* the sleeps in progress and the time until the first of them ends
Sleeps ==
  {d_timer[t] : t \in {u \in Tasks : d_pc[u] = "sleep"}}
    \cup {m_timer[r] : r \in {q \in Runners : m_pc[q] = "sleep"}}

NextDeadline == CHOOSE d \in Sleeps : \A e \in Sleeps : d <= e

\* the observers: since_stop is -1 until the operator has set the flag and
\* then the time since; since_zero is the time for which running_jobs has
\* been 0 with the flag set
Observe(r, d) ==
  [since_stop |-> IF clock[r].since_stop < 0 THEN -1
                  ELSE Min(clock[r].since_stop + d, MaxClock),
   since_zero |-> IF clock[r].since_stop >= 0 /\ conf[r]._running_jobs = 0
                    THEN Min(clock[r].since_zero + d, MaxClock)
                    ELSE 0]

\* time passes until the next sleep ends: nothing that takes no time is
\* left to do
Tick ==
  /\ \A t \in Tasks : ~UrgentTask(t)
  /\ \A i \in 1..Len(cancels) : cancels[i].started
  /\ \A r \in Runners : ~UrgentManager(r)
  /\ Sleeps # {}
  /\ d_timer' = [t \in Tasks |-> IF d_pc[t] = "sleep" THEN d_timer[t] - NextDeadline ELSE 0]
  /\ m_timer' = [r \in Runners |-> IF m_pc[r] = "sleep" THEN m_timer[r] - NextDeadline ELSE 0]
  /\ clock' = [r \in Runners |-> Observe(r, NextDeadline)]
  /\ UNCHANGED <<dbVars, handlerVars, controls, control, file, conf, m_pc, d_pc, env>>

(***************************************************************************)
(* Specifications.                                                         *)
(***************************************************************************)
Dispatch(t) ==
  \/ DispatchEnter(t)
  \/ DispatchWake(t)
  \/ GetNextSelect(t)
  \/ GetNextUpdate(t)
  \/ GetNextFromDb(t)
  \/ HandlerWatch(t)
  \/ ChildExit(t)
  \/ timeout_handler(t)
  \/ HandlerResume(t)
  \/ CommitRead(t)
  \/ CommitUpdate(t)

\* the supervisor while no stop is scheduled: it never gets to the delete
ManageLoop(r) ==
  \/ ManageCommit(r)
  \/ ManageFetch(r)
  \/ ManageWake(r)

NoFiles == [r \in Runners |-> EmptyDict]

\* two runners with one dispatcher each on one queue of two jobs, one of
\* them of a type no handler knows
Init ==
  InitWith(Runners, [r1 |-> 1, r2 |-> 1], NoFiles,
           [j1 |-> "comparippson", j2 |-> "mystery"])

Next ==
  \/ \E t \in Tasks : Dispatch(t)
  \/ \E i \in 1..Len(cancels) : cancel(i)
  \/ \E i \in 1..Len(kill_log) : cancel_communicate(i)
  \/ \E r \in Runners : ManageLoop(r)
  \/ Tick

Spec == Init /\ [][Next]_vars

\* two runners with one dispatcher each after one job, whose row other
\* clients write too
InitWriters ==
  InitWith(Runners, [r1 |-> 1, r2 |-> 1], NoFiles, [j1 |-> "comparippson"])

NextWriters ==
  \/ \E t \in Tasks : Dispatch(t)
  \/ \E i \in 1..Len(cancels) : cancel(i)
  \/ \E i \in 1..Len(kill_log) : cancel_communicate(i)
  \/ \E r \in Runners : ManageLoop(r)
  \/ \E j \in Seeded : ExternalWrite(j)
  \/ Tick

SpecWriters == InitWriters /\ [][NextWriters]_vars

\* the whole supervisor
Manage(r) ==
  \/ ManageLoop(r)
  \/ ManageDelete(r)
  \/ ManageDeleteRow(r)

OnlyR1 == {"r1"}

\* drain: one runner with one dispatcher and one job; the operator
\* schedules the stop and the configuration file is edited
InitDrain ==
  InitWith(OnlyR1, [r1 |-> 1, r2 |-> 0], NoFiles, [j1 |-> "comparippson"])

NextDrain ==
  \/ \E t \in Tasks : Dispatch(t)
  \/ \E i \in 1..Len(cancels) : cancel(i)
  \/ \E i \in 1..Len(kill_log) : cancel_communicate(i)
  \/ \E r \in OnlyR1 : Manage(r)
  \/ \E r \in OnlyR1 : OperatorStop(r)
  \/ \E r \in OnlyR1 : EditConfig(r)
  \/ Tick

SpecDrain == InitDrain /\ [][NextDrain]_vars

\* a dispatcher without work: the loop's idle pass
Idle(t) ==
  \/ DispatchEnter(t)
  \/ DispatchWake(t)
  \/ GetNextSelect(t)

NoJobs == [j \in {} |-> ""]

\* an idle runner: max_jobs = 4, four dispatchers, an empty queue
InitIdle ==
  InitWith(OnlyR1, [r1 |-> 4, r2 |-> 0], NoFiles, NoJobs)

NextIdle ==
  \/ \E t \in Tasks : Idle(t)
  \/ \E r \in OnlyR1 : Manage(r)
  \/ \E r \in OnlyR1 : OperatorStop(r)
  \/ \E r \in OnlyR1 : EditConfig(r)
  \/ Tick

SpecIdle == InitIdle /\ [][NextIdle]_vars

HandleAny(t) ==
  \/ DispatchEnter(t)
  \/ DispatchWake(t)
  \/ GetNextSelect(t)
  \/ GetNextUpdate(t)
  \/ GetNextFromDb(t)
  \/ HandlerWatch(t)
  \/ ChildExitWith(t, Stdouts, ChildErrors)
  \/ timeout_handler(t)
  \/ HandlerResume(t)
  \/ CommitRead(t)
  \/ CommitUpdate(t)

\* one runner with one dispatcher and one job of either handled type, whose
\* child may write any of Stdouts
InitHits ==
  \E jobtype \in {"comparippson", "clusterblast"} :
    InitWith(OnlyR1, [r1 |-> 1, r2 |-> 0], NoFiles, [j1 |-> jobtype])

NextHits ==
  \/ \E t \in Tasks : HandleAny(t)
  \/ \E i \in 1..Len(cancels) : cancel(i)
  \/ \E i \in 1..Len(kill_log) : cancel_communicate(i)
  \/ \E r \in OnlyR1 : ManageLoop(r)
  \/ Tick

SpecHits == InitHits /\ [][NextHits]_vars

\* an idle runner with two dispatchers whose control row may be deleted
\* by somebody else
InitControl ==
  InitWith(OnlyR1, [r1 |-> 2, r2 |-> 0], NoFiles, NoJobs)

NextControl ==
  \/ \E t \in Tasks : Idle(t)
  \/ \E r \in OnlyR1 : Manage(r)
  \/ \E r \in OnlyR1 : OperatorStop(r)
  \/ \E r \in OnlyR1 : ControlDeleted(r)
  \/ Tick

SpecControl == InitControl /\ [][NextControl]_vars

\* RunConfig objects of every shape the fields in this model allow
Configs ==
  [cpus : {2, 4}, max_jobs : 0..2,
   _config_file_hash : 0..Len(DictChoices), _running_jobs : 0..2]

FirstTask == <<"r1", 1>>

\* read_config and update_from_dict on their own: one dispatch task of r1
\* is about to run, the RunConfig and the content of the file are arbitrary
InitConfig ==
  \E c \in Configs, d \in Dicts :
    InitFrom({}, [r \in Runners |-> IF r = "r1" THEN c ELSE StartConfig(0, EmptyDict)],
             [t \in Tasks |-> IF t = FirstTask THEN "spawned" ELSE "unborn"],
             [NoFiles EXCEPT !["r1"] = d], NoJobs)

NextConfig ==
  \/ DispatchEnter(FirstTask)
  \/ DispatchWake(FirstTask)
  \/ GetNextSelect(FirstTask)
  \/ Tick

SpecConfig == InitConfig /\ [][NextConfig]_vars

\* the event loop runs every callback that is ready and every timer that
\* is due: no task that can take a step waits for ever, and time passes
FairIdle ==
  /\ SpecIdle
  /\ WF_vars(Tick)
  /\ \A t \in Tasks : WF_vars(Idle(t))
  /\ \A r \in OnlyR1 : WF_vars(Manage(r))

(***************************************************************************)
(* Properties.                                                             *)
(***************************************************************************)
\* task t holds job j as a Job object
Holds(t, j) == "id" \in DOMAIN d_job[t] /\ d_job[t].id = j

\* job j was returned by get_next and no dispatcher works on it any more
Finished(j) ==
  /\ returned[j] # <<>>
  /\ \A t \in Tasks : Holds(t, j) => d_pc[t] = "aborted"

\* an UPDATE that changed the row
Applied(w) == w.after # w.before

\* a commit of the job's holder has changed the row
Committed(j) ==
  \E i \in 1..Len(writes[j]) :
    Applied(writes[j][i]) /\ writes[j][i].before.status = "running"

\* C1: no job is claimed twice: each job makes the pending -> running
\* transition at most once, get_next returns it to at most one caller, and
\* at most one dispatcher (so at most one runner) holds it at any time,
\* the runner the row names.
C1_SingleClaim ==
  \A j \in Seeded :
    /\ Cardinality({i \in 1..Len(writes[j]) :
         /\ writes[j][i].before.status = "pending"
         /\ writes[j][i].after.status = "running"}) <= 1
    /\ Len(returned[j]) <= 1
    /\ Cardinality({t \in Tasks :
         Holds(t, j) \/ ("claiming" \in DOMAIN d_job[t] /\ d_job[t].claiming = j)}) <= 1
    /\ \A t \in Tasks : Holds(t, j) => jobs[j].runner = RunnerOf(t)

\* two claim transactions of different runners are open at once
C1_Witness ==
  \E t, u \in Tasks :
    /\ RunnerOf(t) # RunnerOf(u)
    /\ d_pc[t] = "update"
    /\ d_pc[u] = "update"

\* C2: every claimed job ends done or failed, whatever the handler's
\* outcome: a job that get_next returned and that no dispatcher works on
\* any more is done or failed in the table.
C2_ClaimedJobsFinish ==
  \A j \in Seeded : Finished(j) => jobs[j].status \in Terminal

\* C3: once a job's stored status is done or failed, no dispatcher issues
\* an UPDATE for its row, get_next does not lock it and does not return it.
C3_TerminalFinality ==
  [][\A j \in Seeded :
       jobs[j].status \in Terminal =>
         /\ writes'[j] = writes[j]
         /\ returned'[j] = returned[j]
         /\ lock'[j] = NoTask]_vars

\* the dispatcher that committed a job looked at the queue again and
\* went to sleep, the job being done or failed
C3_Witness ==
  \E j \in Seeded :
    /\ jobs[j].status \in Terminal
    /\ writes[j] # <<>>
    /\ d_pc[writes[j][Len(writes[j])].task] = "sleep"

\* C4: an UPDATE of the core changes the row exactly if the stored version
\* is the version the writer observed, it then stores that version plus
\* one, and the versions the core writes to one job increase strictly.
C4_VersionDiscipline ==
  \A j \in Seeded : \A i \in 1..Len(writes[j]) :
    LET w == writes[j][i]
    IN  /\ Applied(w) <=> w.before.version = w.observed
        /\ Applied(w) => w.after.version = w.before.version + 1
        /\ \A k \in 1..(i - 1) :
             Applied(w) /\ Applied(writes[j][k]) =>
               writes[j][k].after.version < w.after.version

\* another client has written the row first; the claim and the commit
\* have both changed it, writing versions 2 and 3
C4_Witness ==
  \E j \in Seeded :
    /\ Len(writes[j]) = 2
    /\ writes[j][1].before.version = 1
    /\ Applied(writes[j][1])
    /\ Applied(writes[j][2])
    /\ writes[j][2].after.version = 3

\* the handler of job j was given a successful exit with well-formed lines
WellFormed(j) ==
  /\ delivered[j] # Unset
  /\ delivered[j].res = "success"
  /\ ~HitsRaise(jobs[j].jobtype, delivered[j].stdout)

\* C5: a job seeded pending with version 0 whose child exits 0 with
\* well-formed output is, once claimed and committed, done with results
\* {hits: [...]} and with version 2 (the claim writes 1, the commit 2) plus
\* one for every write of another client.
C5_DoneRow ==
  \A j \in Seeded :
    WellFormed(j) /\ Committed(j) =>
      /\ jobs[j].status = "done"
      /\ jobs[j].results = [hits |-> Hits(jobs[j].jobtype, delivered[j].stdout)]
      /\ jobs[j].version = 2 + env.writes[j]

\* a job is done with two hits and nobody else wrote its row
C5_Witness ==
  \E j \in Seeded :
    /\ jobs[j].status = "done"
    /\ Len(jobs[j].results.hits) = 2
    /\ env.writes[j] = 0

\* C5 as stated: the committed row has version 1.
C5_VersionOne ==
  \A j \in Seeded :
    WellFormed(j) /\ Committed(j) /\ env.writes[j] = 0 =>
      /\ jobs[j].status = "done"
      /\ "hits" \in DOMAIN jobs[j].results
      /\ jobs[j].version = 1

\* C6: while the stored version differs from the version of the Job that
\* is being committed, no step issues an UPDATE for the row or changes
\* its status or results, the Job keeps its version, and its dispatcher
\* can only stay in the commit or end with the error.
C6_ConflictAborts ==
  [][\A t \in Tasks :
       (d_pc[t] = "commit_read" /\ jobs[d_job[t].id].version # d_job[t].version) =>
         /\ d_pc'[t] \in {"commit_read", "aborted"}
         /\ d_job'[t].version = d_job[t].version
         /\ writes'[d_job[t].id] = writes[d_job[t].id]
         /\ jobs'[d_job[t].id].status = jobs[d_job[t].id].status
         /\ jobs'[d_job[t].id].results = jobs[d_job[t].id].results]_vars

\* a dispatcher has ended with the conflict, its job still running in the
\* table and one version ahead of the Job
C6_Witness ==
  \E t \in Tasks :
    /\ d_pc[t] = "aborted"
    /\ d_exc[t]
    /\ jobs[d_job[t].id].status = "running"
    /\ jobs[d_job[t].id].version = d_job[t].version + 1

\* the dispatchers of runner r are gone
Drained(r) == \A t \in Tasks : RunnerOf(t) = r => d_pc[t] \in {"unborn", "exited"}

\* C7: with stop_scheduled set, running_jobs is zero for no longer than
\* one control tick before the supervisor has left its loop and returned,
\* and a supervisor that has returned has deleted its control row.
C7_Drain ==
  \A r \in Runners :
    /\ clock[r].since_zero > CONTROL_UPDATE_SLEEP => m_pc[r] = "exited"
    /\ m_pc[r] = "exited" => controls[r] = NoRow

\* the supervisor has returned a full control tick after running_jobs
\* got to zero, the job of the runner committed
C7_Witness ==
  \E r \in Runners :
    /\ m_pc[r] = "exited"
    /\ clock[r].since_zero = CONTROL_UPDATE_SLEEP
    /\ \E j \in Seeded : jobs[j].status \in Terminal /\ jobs[j].runner = r

\* a step of dispatcher t that passes the shrink check of its loop
ShrinkCheck(t) ==
  /\ d_pc[t] \in {"spawned", "sleep", "commit_update"}
  /\ d_pc'[t] # d_pc[t]

\* C8: a supervisor pass that reads stop_scheduled = true sets max_jobs to
\* 0; once the supervisor has read it, and the configuration file not
\* having been edited, every dispatcher exits at its next shrink check; and
\* from max_jobs = 4 with four idle dispatchers, no pending work and no edit
\* of the file, three control ticks after the operator has set the flag
\* all dispatchers have exited and the control row is deleted.
C8_StopShrinks ==
  /\ [][\A r \in Runners :
          (/\ m_pc[r] = "fetch"
           /\ m_pc'[r] = "sleep"
           /\ controls[r].stop_scheduled) => conf'[r].max_jobs = 0]_vars
  /\ [][\A t \in Tasks :
          (/\ env.edits = 0
           /\ control[RunnerOf(t)].stop_scheduled
           /\ ShrinkCheck(t)) => d_pc'[t] = "exited"]_vars
  /\ [](\A r \in Runners :
          (env.edits = 0 /\ clock[r].since_stop > 3 * CONTROL_UPDATE_SLEEP) =>
            /\ Drained(r)
            /\ m_pc[r] = "exited"
            /\ controls[r] = NoRow)

\* the runner has shut down three control ticks after the flag was set,
\* and not before
C8_Witness ==
  \E r \in Runners :
    /\ env.edits = 0
    /\ clock[r].since_stop = 3 * CONTROL_UPDATE_SLEEP
    /\ Drained(r)
    /\ m_pc[r] = "exited"
    /\ controls[r] = NoRow

\* C8 as stated: two control ticks after the operator has set the flag
\* all dispatchers have exited and the control row is deleted.
C8_TwoTicks ==
  \A r \in Runners :
    (env.edits = 0 /\ clock[r].since_stop > 2 * CONTROL_UPDATE_SLEEP) =>
      /\ Drained(r)
      /\ m_pc[r] = "exited"
      /\ controls[r] = NoRow

\* the timer of job j fired while its child was running
TimedOut(j) ==
  \E i \in 1..Len(cancels) : cancels[i].name = j /\ cancels[i].child = "running"

\* C9: when the timer fires with the child running, "podman kill" is
\* invoked exactly once, with the job id; the handler is given TIMEOUT; and
\* the job is committed failed with the error "timeout exceeded".
C9_TimeoutCommitted ==
  \A j \in Seeded :
    TimedOut(j) =>
      /\ Cardinality({i \in 1..Len(kill_log) : kill_log[i].name = j}) <= 1
      /\ (\A i \in 1..Len(cancels) : cancels[i].name = j => cancels[i].started)
           => Cardinality({i \in 1..Len(kill_log) : kill_log[i].name = j}) = 1
      /\ delivered[j] # Unset => delivered[j].res = "timeout"
      /\ Committed(j) =>
           /\ jobs[j].status = "failed"
           /\ jobs[j].results = FailedResults([str |-> "timeout exceeded"])

\* C10: when the child exits 0 and a line fails to parse, the job is
\* committed failed with an error text and without hits.
C10_ParseErrorCommitted ==
  \A j \in Seeded :
    (/\ delivered[j] # Unset
     /\ delivered[j].res = "success"
     /\ HitsRaise(jobs[j].jobtype, delivered[j].stdout)
     /\ Finished(j)) =>
      /\ jobs[j].status = "failed"
      /\ "error" \in DOMAIN jobs[j].results
      /\ "hits" \notin DOMAIN jobs[j].results

\* job j has a type for which there is no handler
UnknownType(j) == jobs[j].jobtype \notin {"comparippson", "clusterblast"}

\* C11: a claimed job of a type outside {comparippson, clusterblast} is
\* committed failed with the job type as the error message: its dispatcher
\* holds it only in the commit, marked failed with that message, the row is
\* failed with that message once the dispatcher has let go of it, and the
\* step that ends the commit takes the dispatcher to the top of its loop,
\* from where it claims again unless the pool shrinks.
C11_UnknownJobType ==
  /\ [](\A j \in Seeded : \A i \in 1..Len(returned[j]) :
          LET t == returned[j][i]
          IN  UnknownType(j) =>
                /\ Holds(t, j) =>
                     /\ d_pc[t] \in {"commit_read", "commit_update"}
                     /\ d_job[t].status = "failed"
                     /\ d_job[t].results = FailedResults([str |-> jobs[j].jobtype])
                /\ ~Holds(t, j) =>
                     /\ jobs[j].status = "failed"
                     /\ jobs[j].results = FailedResults([str |-> jobs[j].jobtype]))
  /\ [][\A t \in Tasks :
          (/\ d_pc[t] = "commit_update"
           /\ UnknownType(d_job[t].id)
           /\ d_pc'[t] # "commit_update") =>
             \/ d_pc'[t] = "select"
             \/ /\ d_pc'[t] = "exited"
                /\ want_less_jobs(read_config(conf[RunnerOf(t)], file[RunnerOf(t)]))]_vars

\* the dispatcher that committed the job of the unknown type has gone on
\* and holds the next job
C11_Witness ==
  \E j, k \in Seeded : \E t \in Tasks :
    /\ UnknownType(j)
    /\ jobs[j].status = "failed"
    /\ returned[j] = <<t>>
    /\ k # j
    /\ Holds(t, k)

\* C12: every UPDATE of the core that makes a row done or failed writes
\* either done with results {hits: [...]}, the handler having been given
\* SUCCESS with lines that all parse, or failed with results
\* {status: "failed", error: <text>}; and a child that exits nonzero with
\* no timer fired gives failed with the captured stderr text as the error.
C12_TerminalRows ==
  \A j \in Seeded : \A i \in 1..Len(writes[j]) :
    LET w == writes[j][i]
    IN  (Applied(w) /\ w.after.status \in Terminal) =>
          /\ \/ /\ w.after.status = "done"
                /\ DOMAIN w.after.results = {"hits"}
                /\ WellFormed(j)
             \/ /\ w.after.status = "failed"
                /\ DOMAIN w.after.results = {"status", "error"}
                /\ w.after.results.status = "failed"
                /\ DOMAIN w.after.results.error = {"str"}
          /\ (/\ delivered[j] # Unset
              /\ delivered[j].res = "failure"
              /\ ~TimedOut(j)) =>
                /\ w.after.status = "failed"
                /\ w.after.results.error \in
                     {[str |-> delivered[j].stderr[k]] : k \in 1..Len(delivered[j].stderr)}

\* C13: a dispatcher evaluates the shrink condition, and exits through
\* it, only between jobs: at each such step it holds no job, has no child,
\* and every job get_next returned to it is done or failed in the table;
\* and it exits by no other step.
C13_ShrinkBetweenJobs ==
  /\ [][\A t \in Tasks :
          (/\ d_pc[t] \in {"spawned", "sleep", "commit_update"}
           /\ d_pc'[t] \in {"select", "exited"}) =>
             /\ d_job'[t] = NoJob
             /\ child'[t] = "none"
             /\ \A j \in Seeded :
                  (\E i \in 1..Len(returned[j]) : returned[j][i] = t) =>
                    jobs'[j].status \in Terminal]_vars
  /\ [][\A t \in Tasks :
          (d_pc'[t] = "exited" /\ d_pc[t] # "exited") =>
            d_pc[t] \in {"spawned", "sleep", "commit_update"}]_vars

\* a dispatcher has exited through the shrink path, the supervisor having
\* read the stop flag, and the job it had claimed is done or failed
C13_Witness ==
  \E t \in Tasks : \E j \in Seeded :
    /\ d_pc[t] = "exited"
    /\ control[RunnerOf(t)].stop_scheduled
    /\ returned[j] = <<t>>
    /\ jobs[j].status \in Terminal

\* the step in which dispatch task t passes the top of its loop: up() on
\* entry, read_config, the shrink check
PassesLoopTop(t) ==
  /\ d_pc[t] \in {"spawned", "sleep"}
  /\ d_pc'[t] \in {"select", "exited"}

SameDigest(r) == Digest(file[r]) = conf[r]._config_file_hash

\* C14: read_config on a file whose digest equals the one last loaded changes
\* no configuration attribute (a max_jobs the supervisor has set to 0 stays
\* 0 whatever the file says); an attribute changes only when the digest has
\* changed, and then the new digest is remembered and the file's recognised
\* keys are taken over.
C14_ReadConfigIdempotent ==
  [][\A t \in Tasks :
       PassesLoopTop(t) =>
         LET r == RunnerOf(t)
         IN  /\ SameDigest(r) =>
                  /\ \A k \in DOMAIN conf[r] \ {"_running_jobs"} :
                       conf'[r][k] = conf[r][k]
                  /\ conf'[r]._running_jobs =
                       conf[r]._running_jobs
                         + (IF d_pc[t] = "spawned" THEN 1 ELSE 0)
                         - (IF d_pc'[t] = "exited" THEN 1 ELSE 0)
             /\ ~SameDigest(r) =>
                  /\ conf'[r]._config_file_hash = Digest(file[r])
                  /\ \A k \in DOMAIN file[r] \cap {"cpus", "max_jobs"} :
                       conf'[r][k] = file[r][k]]_vars

\* the file says max_jobs = 2 and was loaded before, max_jobs is 0, and the
\* dispatcher has read the configuration and left
C14_Witness ==
  /\ d_pc[FirstTask] = "exited"
  /\ file["r1"] = [max_jobs |-> 2]
  /\ conf["r1"]._config_file_hash = Digest(file["r1"])
  /\ conf["r1"].max_jobs = 0

\* C15: update_from_dict sets exactly the attributes whose names are keys of
\* the dict to the dict's values, ignores keys that name no attribute, and
\* leaves every other attribute as it was.
C15_UpdateFrame ==
  [][\A t \in Tasks :
       (PassesLoopTop(t) /\ ~SameDigest(RunnerOf(t))) =>
         LET r == RunnerOf(t)
             d == file[r]
             entered == IF d_pc[t] = "spawned" THEN up(conf[r]) ELSE conf[r]
             left == IF d_pc'[t] = "exited" THEN 1 ELSE 0
         IN  /\ DOMAIN conf'[r] = DOMAIN conf[r]
             /\ \A k \in DOMAIN conf[r] \ {"_config_file_hash", "_running_jobs"} :
                  conf'[r][k] = IF k \in DOMAIN d THEN d[k] ELSE conf[r][k]
             /\ conf'[r]._running_jobs =
                  (IF "_running_jobs" \in DOMAIN d THEN d._running_jobs
                   ELSE entered._running_jobs) - left]_vars

\* a file with max_jobs = 4 has been merged into a RunConfig whose cpus was
\* not the default: max_jobs is 4, a value no initial RunConfig has, and cpus
\* is still 4
C15_Witness ==
  /\ d_pc[FirstTask] = "select"
  /\ file["r1"] = [max_jobs |-> 4]
  /\ conf["r1"].max_jobs = 4
  /\ conf["r1"].cpus = 4
  /\ conf["r1"]._config_file_hash = Digest(file["r1"])

\* the job is done and its handler was given the stdout of a child that
\* exited 0
DoneFrom(j) ==
  /\ jobs[j].status = "done"
  /\ delivered[j] # Unset
  /\ delivered[j].res = "success"

Orderings(n) ==
  {p \in [1..n -> 1..n] : \A a, b \in 1..n : p[a] = p[b] => a = b}

\* ClusterBlastResult.from_blast(blast).to_json() as section 4.5 of the
\* specification has it (the BlastResult as JSON, with its identity): the
\* class itself is not in blast.py
ClusterBlastJson(blast) == blast

\* the child exited 0 and every row of its output is one from_line (and, for
\* comparippson, from_blast) accepts
RowsAccepted(j) ==
  /\ delivered[j] # Unset
  /\ delivered[j].res = "success"
  /\ ~parse_blast_raises(delivered[j].stdout)
  /\ jobs[j].jobtype = "comparippson" =>
       \A i \in 1..Len(delivered[j].stdout) :
         ~from_blast_raises(parse_blast(delivered[j].stdout)[i])

\* the hits of a comparippson job are the rows of its output ordered by
\* identity, highest first, rows of equal identity in the order of the output
ComparippsonOrder(out, hits) ==
  /\ Len(hits) = Len(out)
  /\ \E p \in Orderings(Len(out)) :
       /\ \A i \in 1..Len(out) : hits[i] = from_blast(from_line(out[p[i]]))
       /\ \A i, k \in 1..Len(out) :
            i < k =>
              /\ hits[i].identity >= hits[k].identity
              /\ hits[i].identity = hits[k].identity => p[i] < p[k]

\* the hits of a clusterblast job are the rows of its output in their order
ClusterblastOrder(out, hits) ==
  /\ Len(hits) = Len(out)
  /\ \A i \in 1..Len(out) : hits[i] = ClusterBlastJson(from_line(out[i]))

\* C16: the hits committed for a comparippson job are the child's output
\* rows ordered by identity, highest first, rows of equal identity in the
\* order of the output; the hits committed for a clusterblast job are the
\* rows in the order of the output.  A job whose child exited 0 with rows
\* that are all accepted, and whose dispatcher is through with it, is done
\* with those hits.
C16_HitOrder ==
  \A j \in Seeded :
    (Finished(j) /\ RowsAccepted(j)) =>
      /\ DoneFrom(j)
      /\ "hits" \in DOMAIN jobs[j].results
      /\ jobs[j].jobtype = "comparippson" =>
           ComparippsonOrder(delivered[j].stdout, jobs[j].results.hits)
      /\ jobs[j].jobtype = "clusterblast" =>
           ClusterblastOrder(delivered[j].stdout, jobs[j].results.hits)

\* the comparippson half of C16, and what is left of the clusterblast half:
\* a clusterblast job is done only from an output without rows
C16_ComparippsonOrder ==
  \A j \in Seeded :
    DoneFrom(j) =>
      /\ jobs[j].jobtype = "comparippson" =>
           ComparippsonOrder(delivered[j].stdout, jobs[j].results.hits)
      /\ jobs[j].jobtype = "clusterblast" =>
           delivered[j].stdout = <<>> /\ jobs[j].results.hits = <<>>

\* the child wrote rows of identity 80, 100 and 80: the hit of 100 is first
\* and the two of 80 follow in the order of the output
C16_Witness ==
  \E j \in Seeded :
    /\ DoneFrom(j)
    /\ jobs[j].jobtype = "comparippson"
    /\ delivered[j].stdout = <<LineS1, LineFull, LineTie>>
    /\ jobs[j].results.hits[1].identity = 100
    /\ jobs[j].results.hits[2].q_acc = "q1"
    /\ jobs[j].results.hits[3].q_acc = "q2"

\* round(num / den) on the exact quotient, den # 0
Round(num, den) ==
  IF den < 0 THEN RoundHalfEven(-num, -den) ELSE RoundHalfEven(num, den)

\* C17: every row from_line accepts is stored with an identity between 0 and
\* 100 that equals round(nident * 100 / q_len), and a row with q_len = 0 is
\* rejected: no job is done from an output with such a row.
C17_IdentityRounding ==
  \A j \in Seeded :
    DoneFrom(j) =>
      \A i \in 1..Len(delivered[j].stdout) :
        LET parts == StripSplit(delivered[j].stdout[i])
            nident == IntOf(parts[3])
            q_len == IntOf(parts[7])
        IN  /\ q_len # 0
            /\ \E k \in 1..Len(jobs[j].results.hits) :
                 LET hit == jobs[j].results.hits[k]
                 IN  /\ hit.q_acc = parts[1]
                     /\ hit.q_len = q_len
                     /\ hit.identity = Round(nident * 100, q_len)
                     /\ 0 <= hit.identity
                     /\ hit.identity <= 100

\* the dispatch tasks of runner r that have entered dispatch and not left it
Live(r) ==
  {t \in Tasks : RunnerOf(t) = r /\ d_pc[t] \notin {"unborn", "spawned", "exited", "aborted"}}

\* C18: whenever the tasks are suspended, running_jobs of a runner is the
\* number of its live dispatch tasks (a task counts from its entry to its
\* exit, by shrinking or by an error that ends it), and it is never
\* negative.
C18_RunningJobsCount ==
  \A r \in Runners :
    /\ running_jobs(conf[r]) = Cardinality(Live(r))
    /\ running_jobs(conf[r]) >= 0

\* the dispatch tasks of runner r, live or started and not yet run
Dispatchers(r) ==
  {t \in Tasks : RunnerOf(t) = r /\ d_pc[t] \notin {"unborn", "exited", "aborted"}}

Aborted(r) == {t \in Tasks : RunnerOf(t) = r /\ d_pc[t] = "aborted"}

\* the tasks runner r's supervisor starts in this step
Started(r) ==
  {t \in Tasks : RunnerOf(t) = r /\ d_pc[t] = "unborn" /\ d_pc'[t] = "spawned"}

\* the step of one pass of manage's loop from fetch to the sleep
SupervisorTick(r) == m_pc[r] = "fetch" /\ m_pc'[r] = "sleep"

\* C19: when a dispatch task has been ended by an error, max_jobs is
\* unchanged and no stop is scheduled, the supervisor's next pass starts a
\* replacement: a pass that finds fewer dispatchers than max_jobs, one of
\* them gone by an error, starts a task.
C19_Respawn ==
  [][\A r \in Runners :
       (/\ SupervisorTick(r)
        /\ ~controls[r].stop_scheduled
        /\ Aborted(r) # {}
        /\ Cardinality(Dispatchers(r)) < conf[r].max_jobs)
         => Started(r) # {}]_vars

\* C20 as stated, for a pool no task of which an error has ended: at the
\* end of a pass of the supervisor the dispatchers, live or just started,
\* are at least max_jobs.
C20_RefillInOneTick ==
  [][\A r \in Runners :
       (SupervisorTick(r) /\ Aborted(r) = {}) =>
         Cardinality({t \in Tasks : RunnerOf(t) = r
                        /\ d_pc'[t] \notin {"unborn", "exited", "aborted"}})
           >= conf'[r].max_jobs]_vars

\* C20, amended: a pass of the supervisor starts one dispatcher when, after
\* the stop check, running_jobs is below max_jobs, and none otherwise: the
\* pool grows by one task in a pass however far below max_jobs it is.
C20_OneSpawnPerTick ==
  [][\A r \in Runners :
       SupervisorTick(r) =>
         Cardinality(Started(r)) =
           (IF conf'[r]._running_jobs < conf'[r].max_jobs THEN 1 ELSE 0)]_vars

\* the supervisor has just finished a pass in which it started a task, no
\* task was ended by an error, and the dispatchers are two short of
\* max_jobs = 4
C20_Witness ==
  \E r \in Runners :
    /\ m_pc[r] = "sleep"
    /\ m_timer[r] = CONTROL_UPDATE_SLEEP
    /\ conf[r].max_jobs = 4
    /\ Aborted(r) = {}
    /\ Cardinality(Dispatchers(r)) = 2
    /\ \E t \in Dispatchers(r) : d_pc[t] = "spawned"

\* the pool of runner r is over its target
OverTarget(r) == running_jobs(conf[r]) > conf[r].max_jobs

\* C21: when max_jobs has been lowered below running_jobs, dispatchers
\* leave at their shrink check and in finite time running_jobs is no longer
\* above max_jobs, whichever of them wakes first; while max_jobs stays as
\* it is, the step that ends the excess leaves running_jobs equal to
\* max_jobs.
C21_ShrinkConverges ==
  /\ \A r \in Runners : OverTarget(r) ~> ~OverTarget(r)
  /\ [][\A r \in Runners :
         (/\ OverTarget(r)
          /\ ~(running_jobs(conf'[r]) > conf'[r].max_jobs)
          /\ conf'[r].max_jobs = conf[r].max_jobs)
           => running_jobs(conf'[r]) = conf'[r].max_jobs]_vars

\* the file lowered max_jobs from 4 to 2, no stop is set, and two of the
\* four dispatchers have left
C21_Witness ==
  /\ file["r1"] = [max_jobs |-> 2]
  /\ controls["r1"] # NoRow
  /\ ~controls["r1"].stop_scheduled
  /\ conf["r1"].max_jobs = 2
  /\ running_jobs(conf["r1"]) = 2
  /\ Cardinality({t \in Tasks : d_pc[t] = "exited"}) = 2

\* the kill reached the container of the job before the child had exited
KillWon(j) ==
  \E i \in 1..Len(kill_log) : kill_log[i].name = j /\ kill_log[i].landed = "running"

\* C22: one completion result reaches the handler, that of whichever of
\* the child's exit and the timer's kill came first: when the kill came
\* first the handler is given TIMEOUT and nothing the child wrote is parsed
\* or committed; when the exit came first the handler is given the exit's
\* result, whatever the timer does afterwards.
C22_SingleCompletion ==
  \A j \in Seeded :
    /\ KillWon(j) =>
         /\ delivered[j] # Unset => delivered[j].res = "timeout"
         /\ Committed(j) =>
              /\ "hits" \notin DOMAIN jobs[j].results
              /\ jobs[j].results \notin {FailedResults([lines |-> e]) : e \in ChildErrors}
    /\ (~KillWon(j) /\ delivered[j] # Unset) =>
         delivered[j].res \in {"success", "failure"}

\* C23: InvalidControlName never leaves the supervisor: neither fetch in
\* a pass of its loop nor delete on its exit ends manage with it.
C23_NoControlError ==
  \A r \in Runners : m_pc[r] # "crashed"

\* C24: a dispatcher that leaves by the shrink path takes running_jobs down
\* by one and never below max_jobs: the test and the decrement are one
\* step, so of a pool k over its target k dispatchers leave and no more.
C24_ShrinkNotBelow ==
  [][\A t \in Tasks :
       (d_pc'[t] = "exited" /\ d_pc[t] # "exited") =>
         LET r == RunnerOf(t)
         IN  /\ running_jobs(conf'[r]) >= conf'[r].max_jobs
             /\ running_jobs(conf'[r]) =
                  running_jobs(conf[r]) + (IF d_pc[t] = "spawned" THEN 1 ELSE 0) - 1]_vars

\* the file lowered max_jobs from 4 to 1: three dispatchers have left and
\* the fourth has passed its shrink check since and sleeps
C24_Witness ==
  /\ file["r1"] = [max_jobs |-> 1]
  /\ conf["r1"].max_jobs = 1
  /\ running_jobs(conf["r1"]) = 1
  /\ Cardinality({t \in Tasks : d_pc[t] = "exited"}) = 3
  /\ \E t \in Tasks : d_pc[t] = "sleep" /\ d_timer[t] = CONTROL_UPDATE_SLEEP

\* C25: a pass of the supervisor that reads the control row with
\* stop_scheduled set starts no dispatcher, whatever max_jobs a reload of
\* the configuration file has set since the pass before.
C25_NoSpawnWhenStopping ==
  [][\A r \in Runners :
       (SupervisorTick(r) /\ controls[r].stop_scheduled) => Started(r) = {}]_vars

\* the stop was set more than a pass ago, so the pass before set max_jobs
\* to 0; a dispatcher has since reloaded a file with max_jobs = 4 and has
\* passed its shrink check at this instant with fewer than four running;
\* the supervisor has just made its pass: max_jobs is 0 again and no task
\* was started
C25_Witness ==
  /\ m_pc["r1"] = "sleep"
  /\ m_timer["r1"] = CONTROL_UPDATE_SLEEP
  /\ control["r1"].stop_scheduled
  /\ clock["r1"].since_stop > CONTROL_UPDATE_SLEEP
  /\ file["r1"] = [max_jobs |-> 4]
  /\ conf["r1"]._config_file_hash = Digest(file["r1"])
  /\ conf["r1"].max_jobs = 0
  /\ running_jobs(conf["r1"]) \in 1..3
  /\ \E t \in Tasks : d_pc[t] = "sleep" /\ d_timer[t] = CONTROL_UPDATE_SLEEP
  /\ \A t \in Tasks : d_pc[t] # "spawned"

\* C26: when Job.commit returns without raising, the stored row holds the
\* status, the results and the version of the Job in memory, also when the
\* row was written by another client between the read and the UPDATE of
\* the commit.
C26_CommitStored ==
  [][\A t \in Tasks :
       (d_pc[t] = "commit_update" /\ d_pc'[t] # "commit_update") =>
         LET j == d_job[t].id
         IN  /\ jobs'[j].status = d_job[t].status
             /\ jobs'[j].results = d_job[t].results
             /\ jobs'[j].version = d_job[t].version]_vars

====
